---- MODULE Spec2Model ----
(***************************************************************************)
(* AgriRisk scoring pipeline: ProductionAgriRiskModel (ml/train_model.py)  *)
(* and the FastAPI serving boundary (ml/api_server.py).                    *)
(*                                                                         *)
(* Numbers are fixed point.  A probability p is the integer p with value   *)
(* p / PScale.  A per-feature contribution (SHAP value) c is the integer c *)
(* with value c / 3000, so that round(c, 3) never meets a tie; an impact   *)
(* is reported in units of 1/1000.  Python's None is modelled by the value *)
(* of the same shape that the code never produces: run 0 for an estimator, *)
(* kind "None" for a calibrator, the empty sequence for a name list.       *)
(***************************************************************************)
EXTENDS Integers, Sequences, FiniteSets, TLC

VARIABLES
    bundle,     \* the ProductionAgriRiskModel instance of the offline process
    disk,       \* models/agri_risk_model_v3.pkl and its _metadata.json
    server,     \* api_server: the global `model` and whether startup ran
    result,     \* what the last call returned or raised, with its inputs
    trainlog,   \* the last train() call: its splits and what was fit on what
    call,       \* the farm record and the estimator's answers of the scoring call under study
    frames,     \* the DataFrame handed to prepare_features and what came back
    threads     \* the scoring calls in progress, each with its position and locals

vars == <<bundle, disk, server, result, trainlog, call, frames, threads>>

-----------------------------------------------------------------------------
(* Bounds of the model *)

PScale == 1000
MaxContribution == 2
MaxWindow == 4
MaxRecords == 11
MaxRuns == 1
MaxMetric == 0
MaxBatch == 2
MaxRetrains == 1
MaxRows == 2
MaxThreads == 2

-----------------------------------------------------------------------------
(* Generic helpers *)

Range(s) == {s[i] : i \in DOMAIN s}

Abs(x) == IF x < 0 THEN -x ELSE x

Min2(a, b) == IF a < b THEN a ELSE b

Max2(a, b) == IF a > b THEN a ELSE b

\* np.clip(x, lo, hi)
Clip(x, lo, hi) == Max2(lo, Min2(x, hi))

\* int(a / b) for b > 0: Python's int() truncates toward zero
TruncDiv(a, b) == IF a >= 0 THEN a \div b ELSE -((-a) \div b)

\* round(a / b) for b > 0, ties to the even neighbour (Python's round)
RoundDiv(a, b) ==
    LET f == a \div b
        r == a - f * b
    IN  IF 2 * r < b THEN f
        ELSE IF 2 * r > b THEN f + 1
        ELSE IF f % 2 = 0 THEN f ELSE f + 1

\* ceil(a / b) for a >= 0, b > 0
CeilDiv(a, b) == (a + b - 1) \div b

-----------------------------------------------------------------------------
(* prepare_features: the feature contract *)

numerical_features ==
    << "land_acres", "actual_rainfall_mm", "rainfall_deficit_pct",
       "heatwave_days", "monsoon_reliability",
       "ndvi_score", "soil_moisture_percent", "soil_fertility_index",
       "vegetation_health_score", "soil_quality_score",
       "water_source_count", "borewell_count", "borewell_depth_ft",
       "crop_count", "livestock_count",
       "kcc_score", "kcc_repayment_rate", "outstanding_debt_ratio",
       "water_security_index", "financial_health_index",
       "diversification_index", "weather_stress_index",
       "irrigation_score",
       "irrigation_x_drought", "tractor_x_land",
       "debt_x_drought", "diversification_x_weather",
       "rainfall_deviation_from_state",
       "year_ordinal",
       "is_rainfed", "is_high_risk_crop", "is_marginal_farmer",
       "is_single_crop", "has_deep_borewell", "is_drought_year",
       "is_flood_year", "has_financial_stress", "is_kharif_season",
       "owns_tractor", "has_storage", "has_livestock",
       "has_canal_access", "has_insurance_history" >>

categorical_features == << "state", "crop_type", "irrigation_type", "season" >>

feature_columns == numerical_features \o categorical_features

NumFeatures == Len(feature_columns)

-----------------------------------------------------------------------------
(* _calculate_breakdown: the four buckets *)

weather_features ==
    { "rainfall_deficit_pct", "heatwave_days", "actual_rainfall_mm",
      "monsoon_reliability", "weather_stress_index", "is_drought_year",
      "is_flood_year", "rainfall_deviation_from_state" }

infrastructure_features ==
    { "irrigation_type", "water_source_count", "borewell_depth_ft",
      "borewell_count", "has_canal_access", "water_security_index",
      "irrigation_score", "is_rainfed", "has_deep_borewell",
      "irrigation_x_drought" }

diversification_features ==
    { "crop_count", "has_livestock", "livestock_count", "crop_type",
      "diversification_index", "is_single_crop", "is_high_risk_crop",
      "diversification_x_weather" }

financial_features ==
    { "kcc_score", "kcc_repayment_rate", "outstanding_debt_ratio",
      "has_insurance_history", "financial_health_index",
      "has_financial_stress", "debt_x_drought" }

BucketNames == {"weather", "infrastructure", "diversification", "financial"}

BucketFeatures(b) ==
    CASE b = "weather" -> weather_features
      [] b = "infrastructure" -> infrastructure_features
      [] b = "diversification" -> diversification_features
      [] b = "financial" -> financial_features

RECURSIVE SumOver(_, _)
\* the sum of contributions[i] over the indices i of S
SumOver(contributions, S) ==
    IF S = {} THEN 0
    ELSE LET i == CHOOSE j \in S : \A k \in S : j <= k
         IN  contributions[i] + SumOver(contributions, S \ {i})

\* sum(contributions[i] for i, f in enumerate(self.feature_names) if f in bucket);
\* the terms that are zero are left out of the sum
BucketShap(names, contributions, b) ==
    SumOver(contributions,
            {i \in 1..Len(names) : names[i] \in BucketFeatures(b) /\ contributions[i] # 0})

\* mutant: the share scaled by 25 in place of 12.5, and no clip
BucketScore_Unclipped(sign, shap, total_abs) ==
    TruncDiv(25 * total_abs + sign * 50 * shap, 2 * total_abs)

\* int(np.clip(12.5 + sign * (shap / total_abs * 12.5), 0, 25)) for total_abs > 0,
\* computed over the common denominator 2 * total_abs
BucketScore(sign, shap, total_abs) ==
    TruncDiv(Clip(25 * total_abs + sign * 25 * shap, 0, 50 * total_abs), 2 * total_abs)

_calculate_breakdown(names, contributions) ==
    LET weather_shap == BucketShap(names, contributions, "weather")
        infra_shap == BucketShap(names, contributions, "infrastructure")
        div_shap == BucketShap(names, contributions, "diversification")
        fin_shap == BucketShap(names, contributions, "financial")
        total_abs == Abs(weather_shap) + Abs(infra_shap) + Abs(div_shap) + Abs(fin_shap)
    IN  IF total_abs > 0
        THEN [ weather_risk |-> BucketScore(-1, weather_shap, total_abs),
               infrastructure |-> BucketScore(1, infra_shap, total_abs),
               diversification |-> BucketScore(1, div_shap, total_abs),
               financial_health |-> BucketScore(1, fin_shap, total_abs) ]
        ELSE [ weather_risk |-> 12, infrastructure |-> 12,
               diversification |-> 12, financial_health |-> 12 ]

-----------------------------------------------------------------------------
(* predict_risk_score: score, category, drivers *)

\* mutant: round() in place of int()
RiskScoreOf_Rounded(prob_claim) ==
    RoundDiv(Clip((PScale - prob_claim) * 100, 0, 100 * PScale), PScale)

\* int(np.clip((1 - prob_claim) * 100, 0, 100))
RiskScoreOf(prob_claim) ==
    TruncDiv(Clip((PScale - prob_claim) * 100, 0, 100 * PScale), PScale)

\* mutant: the thresholds compared with > in place of >=
CategoryOf_Strict(risk_score) ==
    IF risk_score > 75
    THEN [risk_category |-> "low", category_label |-> "Low Risk (Safe)"]
    ELSE IF risk_score > 50
    THEN [risk_category |-> "medium", category_label |-> "Moderate Risk"]
    ELSE IF risk_score > 25
    THEN [risk_category |-> "high", category_label |-> "High Risk"]
    ELSE [risk_category |-> "high", category_label |-> "Critical Risk"]

\* the if / elif chain on risk_score
CategoryOf(risk_score) ==
    IF risk_score >= 75
    THEN [risk_category |-> "low", category_label |-> "Low Risk (Safe)"]
    ELSE IF risk_score >= 50
    THEN [risk_category |-> "medium", category_label |-> "Moderate Risk"]
    ELSE IF risk_score >= 25
    THEN [risk_category |-> "high", category_label |-> "High Risk"]
    ELSE [risk_category |-> "high", category_label |-> "Critical Risk"]

\* round(prob_claim * 100, 2), in hundredths of a percent
ClaimProbabilityOf(prob_claim) == RoundDiv(prob_claim * 10000, PScale)

\* round(c, 3) of a contribution c / 3000, in thousandths
Round3(c) == RoundDiv(c, 3)

\* list(zip(self.feature_names, contributions)): pairs <<feature index, c>>
FeatureImpacts(names, contributions) ==
    [i \in 1..Min2(Len(names), Len(contributions)) |-> <<i, contributions[i]>>]

IsRisk(x) == x[2] > 0

IsProtective(x) == x[2] < 0

\* [(f, c) for f, c in feature_impacts if c > 0]
PositiveImpacts(impacts) == SelectSeq(impacts, IsRisk)

\* [(f, abs(c)) for f, c in feature_impacts if c < 0]
NegativeImpacts(impacts) ==
    LET neg == SelectSeq(impacts, IsProtective)
    IN  [k \in 1..Len(neg) |-> <<neg[k][1], Abs(neg[k][2])>>]

RECURSIVE InsertDesc_Unstable(_, _)
\* mutant: x goes in front of the elements with an equal key
InsertDesc_Unstable(x, s) ==
    IF s = <<>> THEN <<x>>
    ELSE IF Head(s)[2] > x[2] THEN <<Head(s)>> \o InsertDesc_Unstable(x, Tail(s))
    ELSE <<x>> \o s

RECURSIVE InsertDesc(_, _)
\* x goes behind every element whose key is not smaller: equal keys keep
\* their input order, as sorted(..., reverse=True) does
InsertDesc(x, s) ==
    IF s = <<>> THEN <<x>>
    ELSE IF Head(s)[2] >= x[2] THEN <<Head(s)>> \o InsertDesc(x, Tail(s))
    ELSE <<x>> \o s

RECURSIVE SortedDesc(_)
\* sorted(s, key=lambda x: x[1], reverse=True)
SortedDesc(s) ==
    IF s = <<>> THEN <<>>
    ELSE InsertDesc(s[Len(s)], SortedDesc(SubSeq(s, 1, Len(s) - 1)))

\* s[:3]
Top3(s) == SubSeq(s, 1, Min2(3, Len(s)))

\* sorted([(f, c) for f, c in feature_impacts if c > 0], ...)[:3]
RiskDrivers(impacts) == Top3(SortedDesc(PositiveImpacts(impacts)))

\* sorted([(f, abs(c)) for f, c in feature_impacts if c < 0], ...)[:3]
ProtectiveFactors(impacts) == Top3(SortedDesc(NegativeImpacts(impacts)))

\* [{'factor': f, 'impact': round(c, 3)} for f, c in pairs]
ImpactList(names, pairs) ==
    [k \in 1..Len(pairs) |-> [factor |-> names[pairs[k][1]], impact |-> Round3(pairs[k][2])]]

-----------------------------------------------------------------------------
(* The bundle: ProductionAgriRiskModel.__init__ *)

EmptyDict == [k \in {} |-> 0]

NoEstimator == [run |-> 0, fitted |-> FALSE]

NoCalibrator == [kind |-> "None", run |-> 0, iso |-> 0]

\* self.model = None ... self.feature_importance = {}
NewBundle ==
    [ model |-> NoEstimator,
      calibrated_model |-> NoCalibrator,
      feature_names |-> <<>>,
      categorical_features |-> <<>>,
      numerical_features |-> <<>>,
      metrics |-> EmptyDict,
      feature_importance |-> EmptyDict ]

-----------------------------------------------------------------------------
(* Farm records *)

\* the columns of one row of the training data (data_generator.py)
DatasetFields ==
    { "farmer_id", "state", "season", "year", "land_acres", "crop_type",
      "irrigation_type", "water_source_count", "borewell_count",
      "borewell_depth_ft", "has_canal_access", "crop_count", "has_livestock",
      "livestock_count", "owns_tractor", "has_storage", "kcc_score",
      "kcc_repayment_rate", "outstanding_debt_ratio", "has_insurance_history",
      "region_rainfall_baseline", "actual_rainfall_mm", "rainfall_deficit_pct",
      "heatwave_days", "avg_temperature_c", "monsoon_reliability",
      "ndvi_score", "soil_moisture_percent", "soil_fertility_index",
      "pest_attack_flag", "farmer_wealth_hidden", "claim_probability_true",
      "claim_filed", "loss_percent", "payout_amount", "is_fraud",
      "sum_insured", "district_avg_premium" }

\* the fields of PredictionInput, the keys of input_data.model_dump()
SchemaFields ==
    { "state", "season", "year", "crop_type", "land_acres", "irrigation_type",
      "water_source_count", "borewell_count", "borewell_depth_ft",
      "has_canal_access", "crop_count", "has_livestock", "livestock_count",
      "owns_tractor", "has_storage", "kcc_score", "kcc_repayment_rate",
      "outstanding_debt_ratio", "has_insurance_history",
      "rainfall_deficit_percent", "actual_rainfall_mm", "heatwave_days",
      "avg_temperature_c", "monsoon_reliability", "ndvi_score",
      "soil_moisture_percent", "soil_fertility_index" }

\* the raw columns prepare_features reads, in the order it first reads them
RawAccessOrder ==
    << "irrigation_type", "rainfall_deficit_pct", "owns_tractor", "land_acres",
       "outstanding_debt_ratio", "crop_count", "water_source_count",
       "borewell_depth_ft", "kcc_repayment_rate", "has_livestock",
       "heatwave_days", "ndvi_score", "soil_fertility_index",
       "soil_moisture_percent", "crop_type", "year", "season", "state",
       "actual_rainfall_mm", "monsoon_reliability", "borewell_count",
       "livestock_count", "kcc_score", "has_storage", "has_canal_access",
       "has_insurance_history" >>

\* the columns prepare_features converts with .astype(int)
IntCastFields == {"owns_tractor", "has_livestock"}

\* A farm record: the keys it has, and those of its .astype(int) fields that
\* hold a string that is no number.
WellFormedFarm == [keys |-> DatasetFields, nonint |-> {}]

\* what a schema-valid request dumps to
SchemaFarm == [keys |-> SchemaFields, nonint |-> {}]

MalformedFarms ==
    {[keys |-> DatasetFields \ {f}, nonint |-> {}] : f \in Range(RawAccessOrder)}
    \cup {[keys |-> DatasetFields, nonint |-> {f}] : f \in IntCastFields}

NoExc == [cls |-> "none", msg |-> ""]

\* df[col] raises KeyError for an absent column;
\* df[col].astype(int) raises ValueError for a string that is no number
ColumnFailure(farm, col) ==
    IF col \notin farm.keys
    THEN [cls |-> "KeyError", msg |-> col]
    ELSE IF col \in IntCastFields /\ col \in farm.nonint
    THEN [cls |-> "ValueError", msg |-> "invalid literal for int()"]
    ELSE NoExc

\* what prepare_features(pd.DataFrame([farm_data])) raises, NoExc if nothing:
\* the failure of the first column, in reading order, that has one
prepare_features_raises(farm) ==
    LET failing == {i \in 1..Len(RawAccessOrder) :
                      ColumnFailure(farm, RawAccessOrder[i]).cls # "none"}
    IN  IF failing = {} THEN NoExc
        ELSE ColumnFailure(farm, RawAccessOrder[CHOOSE i \in failing : \A j \in failing : i <= j])

\* farm_data.get('farmer_id', 'Unknown')
FarmerIdOf(farm) == IF "farmer_id" \in farm.keys THEN "F000001" ELSE "Unknown"

-----------------------------------------------------------------------------
(* predict_risk_score *)

\* The fitted isotonic map of a calibrator: non-decreasing, into [0, 1].
\* iso 0 leaves the probability as it is, iso 1 is a step at one half.
Calibrate(iso, raw) ==
    IF iso = 0 THEN raw
    ELSE IF 2 * raw < PScale THEN 0 ELSE PScale

\* self.calibrated_model.predict_proba(X)[0, 1]; after the fallback
\* self.calibrated_model is self.model itself
predict_proba(calibrated_model, raw) ==
    IF calibrated_model.kind = "raw" THEN raw
    ELSE Calibrate(calibrated_model.iso, raw)

NoReport ==
    [ farmer_id |-> "", risk_score |-> -1, risk_category |-> "",
      category_label |-> "", claim_probability |-> -1, confidence |-> "",
      breakdown |-> EmptyDict, top_risk_drivers |-> <<>>,
      top_protective_factors |-> <<>> ]

NotReadyError == [cls |-> "ValueError", msg |-> "Model not trained. Call train() first."]

Raise(exc, calls) ==
    [outcome |-> "raise", exc |-> exc, calls |-> calls, prob_claim |-> -1,
     report |-> NoReport]

\* The report for a calibrated probability and a contribution vector
ReportOf(names, farm, prob_claim, contributions) ==
    LET risk_score == RiskScoreOf(prob_claim)
        feature_impacts == FeatureImpacts(names, contributions)
    IN  [ farmer_id |-> FarmerIdOf(farm),
          risk_score |-> risk_score,
          risk_category |-> CategoryOf(risk_score).risk_category,
          category_label |-> CategoryOf(risk_score).category_label,
          claim_probability |-> ClaimProbabilityOf(prob_claim),
          confidence |-> "high",
          breakdown |-> _calculate_breakdown(names, contributions),
          top_risk_drivers |-> ImpactList(names, RiskDrivers(feature_impacts)),
          top_protective_factors |-> ImpactList(names, ProtectiveFactors(feature_impacts)) ]

\* mutant: no check of self.calibrated_model
predict_risk_score_Unguarded(self, farm, raw, contributions) ==
    IF prepare_features_raises(farm).cls # "none"
    THEN Raise(prepare_features_raises(farm), <<"prepare_features">>)
    ELSE IF ~self.model.fitted
    THEN Raise([cls |-> "CatBoostError", msg |-> "Model is not fitted"],
               <<"prepare_features", "predict_proba", "get_feature_importance">>)
    ELSE [ outcome |-> "report", exc |-> NoExc,
           calls |-> <<"prepare_features", "predict_proba", "get_feature_importance">>,
           prob_claim |-> predict_proba(self.calibrated_model, raw),
           report |-> ReportOf(self.feature_names, farm,
                               predict_proba(self.calibrated_model, raw), contributions) ]

\* predict_risk_score(self, farm_data).  raw is the estimator's probability
\* for the record and contributions its SHAP values, both the estimator's
\* answers.  calls lists the pipeline stages entered.
predict_risk_score(self, farm, raw, contributions) ==
    IF self.calibrated_model.kind = "None"
    THEN Raise(NotReadyError, <<>>)
    ELSE IF prepare_features_raises(farm).cls # "none"
    THEN Raise(prepare_features_raises(farm), <<"prepare_features">>)
    ELSE IF ~self.model.fitted
    THEN Raise([cls |-> "CatBoostError", msg |-> "Model is not fitted"],
               <<"prepare_features", "predict_proba", "get_feature_importance">>)
    ELSE [ outcome |-> "report", exc |-> NoExc,
           calls |-> <<"prepare_features", "predict_proba", "get_feature_importance">>,
           prob_claim |-> predict_proba(self.calibrated_model, raw),
           report |-> ReportOf(self.feature_names, farm,
                               predict_proba(self.calibrated_model, raw), contributions) ]

-----------------------------------------------------------------------------
(* train: the three-way split *)

\* A dataset: n records 1..n; records 1..pos have claim_filed = 1.
Datasets == UNION {{[n |-> n, pos |-> k] : k \in 0..n} : n \in 0..MaxRecords}

Label(df, i) == IF i <= df.pos THEN 1 ELSE 0

ClassOf(df, S, c) == {i \in S : Label(df, i) = c}

ClassesIn(df, S) == {Label(df, i) : i \in S}

\* train_test_split(..., test_size=num/den, stratify=y) raises ValueError:
\* no sample, an empty train part, a class with one member, or a part
\* smaller than the number of classes
SplitRaises(df, S, num, den) ==
    LET n == Cardinality(S)
        n_test == CeilDiv(num * n, den)
        n_train == n - n_test
        n_classes == Cardinality(ClassesIn(df, S))
    IN  \/ n = 0
        \/ n_train = 0
        \/ \E c \in ClassesIn(df, S) : Cardinality(ClassOf(df, S, c)) < 2
        \/ n_train < n_classes
        \/ n_test < n_classes

\* The stratified parts <<train part, test part>> the shuffle can produce:
\* the train part takes from each class the floor of its proportional share,
\* and the samples still missing go to the classes with the largest remainder.
StratifiedSplits(df, S, num, den) ==
    LET n == Cardinality(S)
        n_test == CeilDiv(num * n, den)
        n_train == n - n_test
        share(c) == (Cardinality(ClassOf(df, S, c)) * n_train) \div n
        rem(c) == (Cardinality(ClassOf(df, S, c)) * n_train) % n
        took(tr, c) == Cardinality(ClassOf(df, tr, c))
    IN  { <<tr, S \ tr>> : tr \in
            { t \in SUBSET S :
                /\ Cardinality(t) = n_train
                /\ \A c \in ClassesIn(df, S) :
                     /\ took(t, c) \in {share(c), share(c) + 1}
                     /\ took(t, c) = share(c) + 1 =>
                          \A d \in ClassesIn(df, S) :
                             took(t, d) = share(d) => rem(c) >= rem(d) } }

\* X_train, X_temp = split(X, 0.3); X_val, X_test = split(X_temp, 0.5)
FirstSplitRaises(df) == SplitRaises(df, 1..df.n, 3, 10)

NoSplit == [ok |-> FALSE, train |-> {}, temp |-> {}, val |-> {}, test |-> {}]

\* Every outcome of the two train_test_split calls: ok is FALSE when one raised
SplitOutcomes(df) ==
    IF FirstSplitRaises(df) THEN {NoSplit}
    ELSE UNION
        { IF SplitRaises(df, a[2], 1, 2)
          THEN {[NoSplit EXCEPT !.train = a[1], !.temp = a[2]]}
          ELSE {[ok |-> TRUE, train |-> a[1], temp |-> a[2], val |-> b[1], test |-> b[2]] :
                  b \in StratifiedSplits(df, a[2], 1, 2)} :
          a \in StratifiedSplits(df, 1..df.n, 3, 10) }

\* What each fit is handed
EstimatorFitSet(sp) == sp.train

EarlyStoppingSet(sp) == sp.val

\* mutant: the calibrator fit on all of X_temp
CalibratorFitSet_Temp(sp) == sp.temp

CalibratorFitSet(sp) == sp.test

EvaluationSet(sp) == sp.test

-----------------------------------------------------------------------------
(* train *)

MetricKeys == {"auc", "brier_score", "precision", "recall", "f1_score", "accuracy"}

\* self.metrics = {'auc': ..., ...}: q stands for the values measured
MetricsOf(q) == [k \in MetricKeys |-> q]

\* dict(zip(feature_names, self.model.get_feature_importance(train_pool)))
FeatureImportanceOf(run) == [f \in Range(feature_columns) |-> run]

\* What the environment decides in one train() call: whether the calibrator
\* fit raises, the step (if any) at which something else raises, the
\* measured metrics and the isotonic map fitted.
Environments ==
    [ calib_fails : BOOLEAN,
      fail_at : {"none", "fit", "evaluate", "plot"},
      q : 0..MaxMetric,
      iso : 0..1 ]

\* CatBoostClassifier.fit raises when the training labels hold one class
FitRaisesOn(df, sp) == sp.ok /\ Cardinality(ClassesIn(df, sp.train)) < 2

\* what the environment can do in a train() call on df split as sp
EnvironmentsFor(df, sp) ==
    {e \in Environments : FitRaisesOn(df, sp) => e.fail_at = "fit"}

\* calibration succeeds and nothing raises
SomeEnvironment == [calib_fails |-> FALSE, fail_at |-> "none", q |-> 0, iso |-> 0]

NoLog ==
    [ run |-> 0, stage |-> "none", df |-> [n |-> 0, pos |-> 0], split |-> NoSplit,
      estimator_fit_on |-> {}, early_stop_on |-> {}, calibrator_fit_on |-> {},
      evaluated_on |-> {}, calib_failed |-> FALSE, q |-> 0 ]

\* train(self, df), lines 214-219: the name lists are assigned first
AfterPrepare(self) ==
    [self EXCEPT !.feature_names = feature_columns,
                 !.categorical_features = categorical_features,
                 !.numerical_features = numerical_features]

\* lines 250-268: self.model is assigned, then fit
AfterFit(self, run, fitted) ==
    [AfterPrepare(self) EXCEPT !.model = [run |-> run, fitted |-> fitted]]

\* lines 276-286: the calibrator, or the raw model when its fit raised
AfterCalibration(self, run, env) ==
    [AfterFit(self, run, TRUE) EXCEPT !.calibrated_model =
        IF env.calib_fails THEN [kind |-> "raw", run |-> run, iso |-> 0]
        ELSE [kind |-> "calibrated", run |-> run, iso |-> env.iso]]

\* lines 307-330: metrics and feature importance
AfterEvaluation(self, run, env) ==
    [AfterCalibration(self, run, env) EXCEPT
        !.metrics = MetricsOf(env.q),
        !.feature_importance = FeatureImportanceOf(run)]

\* The bundle train() leaves behind, by the step that raised
TrainedBundle(self, run, sp, env) ==
    IF ~sp.ok THEN AfterPrepare(self)
    ELSE IF env.fail_at = "fit" THEN AfterFit(self, run, FALSE)
    ELSE IF env.fail_at = "evaluate" THEN AfterCalibration(self, run, env)
    ELSE AfterEvaluation(self, run, env)

TrainStage(sp, env) ==
    IF ~sp.ok THEN "split_failed"
    ELSE IF env.fail_at = "none" THEN "done"
    ELSE env.fail_at \o "_failed"

TrainLogOf(run, df, sp, env) ==
    LET stage == TrainStage(sp, env)
        fit_ran == stage # "split_failed"
        calib_ran == stage \in {"evaluate_failed", "plot_failed", "done"}
    IN  [ run |-> run, stage |-> stage, df |-> df, split |-> sp,
          estimator_fit_on |-> IF fit_ran THEN EstimatorFitSet(sp) ELSE {},
          early_stop_on |-> IF fit_ran THEN EarlyStoppingSet(sp) ELSE {},
          calibrator_fit_on |-> IF calib_ran THEN CalibratorFitSet(sp) ELSE {},
          evaluated_on |-> IF calib_ran THEN EvaluationSet(sp) ELSE {},
          calib_failed |-> calib_ran /\ env.calib_fails,
          q |-> IF stage \in {"plot_failed", "done"} THEN env.q ELSE 0 ]

-----------------------------------------------------------------------------
(* save / load *)

\* the metadata dict of save()
MetadataOf(self) ==
    [ feature_names |-> self.feature_names,
      categorical_features |-> self.categorical_features,
      numerical_features |-> self.numerical_features,
      metrics |-> self.metrics,
      feature_importance |-> self.feature_importance ]

NoDisk == [exists |-> FALSE, pkl |-> NewBundle, metadata |-> MetadataOf(NewBundle)]

\* load(path) raises when the file is missing (joblib.load) or when the
\* pickled bundle has no metrics (model.metrics['auc'])
LoadRaises(d) ==
    IF ~d.exists THEN [cls |-> "FileNotFoundError", msg |-> "models/agri_risk_model_v3.pkl"]
    ELSE IF "auc" \notin DOMAIN d.pkl.metrics THEN [cls |-> "KeyError", msg |-> "auc"]
    ELSE NoExc

-----------------------------------------------------------------------------
(* Inputs *)

ZeroContributions == [i \in 1..NumFeatures |-> 0]

\* The contribution vector that is v inside the window of MaxWindow
\* neighbouring features starting at s, and zero outside it
WindowVector(s, v) ==
    [i \in 1..NumFeatures |-> IF i >= s /\ i < s + MaxWindow THEN v[i - s + 1] ELSE 0]

\* a window at every 3 * MaxWindow - 2 features
WindowStarts == {t \in 1..(NumFeatures - MaxWindow + 1) : t % (3 * MaxWindow - 2) = 1}

WindowValues == [1..MaxWindow -> (-MaxContribution)..MaxContribution]

\* one vector with a driver and a protective factor
SomeContributions ==
    [i \in 1..NumFeatures |-> IF i = 3 THEN 2 ELSE IF i = 17 THEN -1 ELSE 0]

Probabilities == 0..PScale

\* a dataset that splits: half of the records filed a claim
SomeDataset == [n |-> MaxRecords, pos |-> MaxRecords \div 2]

\* the split the fixed random_state yields is one of the possible ones
SomeSplit == CHOOSE sp \in SplitOutcomes(SomeDataset) : sp.ok

-----------------------------------------------------------------------------
(* prepare_features on a DataFrame *)

(* A DataFrame is a sequence of rows, a row a function from column names   *)
(* to cells, a cell the empty set (NaN) or the set of its one value.  The  *)
(* columns modelled are those whose engineered value depends on the other  *)
(* rows of the frame or on the imputation rules.  A numeric cell that a    *)
(* median can fill holds twice its value, so that the mean of the two      *)
(* middle values is an integer; ndvi_score is in hundredths,                *)
(* water_security_index in thousandths.                                    *)

RawColumns ==
    { "state", "year", "actual_rainfall_mm", "ndvi_score", "soil_moisture_percent",
      "irrigation_type", "borewell_depth_ft", "borewell_count", "kcc_score", "crop_type",
      "water_source_count" }

DerivedColumns ==
    { "water_security_index", "year_ordinal", "rainfall_deviation_from_state",
      "is_rainfed", "has_deep_borewell" }

\* the modelled part of numerical_features, in its order
ModelledNumerical ==
    << "actual_rainfall_mm", "ndvi_score", "soil_moisture_percent",
       "borewell_count", "borewell_depth_ft", "kcc_score",
       "water_security_index", "rainfall_deviation_from_state", "year_ordinal",
       "is_rainfed", "has_deep_borewell" >>

\* the modelled part of categorical_features, in its order
ModelledCategorical == <<"state", "crop_type", "irrigation_type">>

NaN == {}

IsNa(cell) == cell = {}

The(cell) == CHOOSE v \in cell : TRUE

Rows(df) == 1..Len(df)

\* Series.median() over the rows I: NaN is skipped; NaN when nothing is
\* left; else the mean of the two middle values of the rows P that are left
Median(df, col, I) ==
    LET P == {i \in I : ~IsNa(df[i][col])}
        n == Cardinality(P)
        KthSmallest(k) ==
            CHOOSE v \in {The(df[i][col]) : i \in P} :
                /\ Cardinality({i \in P : The(df[i][col]) < v}) < k
                /\ Cardinality({i \in P : The(df[i][col]) <= v}) >= k
    IN  IF n = 0 THEN NaN
        ELSE {(KthSmallest((n + 1) \div 2) + KthSmallest(n \div 2 + 1)) \div 2}

\* Series.mode(): the most frequent values; empty when all is NaN
ModeValues(df, col) ==
    LET CountOf(v) == Cardinality({i \in Rows(df) : df[i][col] = {v}})
        values == UNION {df[i][col] : i \in Rows(df)}
    IN  {v \in values : \A w \in values : CountOf(v) >= CountOf(w)}

\* Series.mode()[0]: mode() returns the tied values sorted
FirstMode(df, col) ==
    LET SortedCategories == <<"KA", "MH", "drip", "none", "rainfed", "rice", "wheat">>
        RankOf(v) == CHOOSE k \in 1..Len(SortedCategories) : SortedCategories[k] = v
    IN  CHOOSE v \in ModeValues(df, col) :
            \A w \in ModeValues(df, col) : RankOf(v) <= RankOf(w)

\* df[col] = f, row by row
SetColumn(df, col, f) == [i \in Rows(df) |-> [df[i] EXCEPT ![col] = f[i]]]

\* df[col].fillna(cell)
FillNa(df, col, cell) ==
    SetColumn(df, col, [i \in Rows(df) |-> IF IsNa(df[i][col]) THEN cell ELSE df[i][col]])

\* the fraction num / den in lowest terms, den > 0
Fraction(num, den) ==
    LET RECURSIVE Gcd(_, _)
        Gcd(a, b) == IF b = 0 THEN a ELSE Gcd(b, a % b)
        g == Gcd(Abs(num), den)
    IN  <<num \div g, den \div g>>

SameState(df, i) == {j \in Rows(df) : df[j]["state"] = df[i]["state"]}

\* df['irrigation_type'].isin(['rainfed', 'none'])
IsRainfed(row) == row["irrigation_type"] \in {{"rainfed"}, {"none"}}

\* lines 64-74, 108, 112, 123, 131-134: the derived columns of row i
DerivedCell(df, i, col) ==
    IF col = "water_security_index"
    THEN \* irrigation_score * 0.5 + clip(water_source_count / 4, 0, 1) * 0.3
         \* + clip(borewell_depth_ft / 200, 0, 1) * 0.2; a NaN depth gives NaN
         LET irrigation_score ==
                 IF df[i]["irrigation_type"] = {"drip"} THEN 95 ELSE 0
         IN  IF IsNa(df[i]["borewell_depth_ft"]) THEN NaN
             ELSE {irrigation_score * 10
                   + Min2(The(df[i]["water_source_count"]), 4) * 150
                   + Min2(The(df[i]["borewell_depth_ft"]), 2 * 200)}
    ELSE IF col = "is_rainfed"
    THEN {IF IsRainfed(df[i]) THEN 1 ELSE 0}
    ELSE IF col = "has_deep_borewell"
    THEN {IF ~IsNa(df[i]["borewell_depth_ft"]) /\ The(df[i]["borewell_depth_ft"]) > 2 * 150
          THEN 1 ELSE 0}
    ELSE IF col = "year_ordinal"
    THEN {The(df[i]["year"])
          - (CHOOSE y \in {The(df[j]["year"]) : j \in Rows(df)} :
                \A j \in Rows(df) : y <= The(df[j]["year"]))}
    ELSE LET RECURSIVE SumRainfall(_)
             SumRainfall(P) ==
                 IF P = {} THEN 0
                 ELSE LET j == CHOOSE k \in P : TRUE
                      IN  The(df[j]["actual_rainfall_mm"]) + SumRainfall(P \ {j})
             G == SameState(df, i)
             total == SumRainfall(G)
         IN  \* a state mean of 0 (no rainfall is negative): 0.0 / 0.0 is NaN
             IF total = 0 THEN NaN
             ELSE {Fraction(The(df[i]["actual_rainfall_mm"]) * Cardinality(G) - total, total)}

\* lines 36-134: the working copy with the derived columns added
Engineer(df) ==
    [i \in Rows(df) |->
        [col \in RawColumns \cup DerivedColumns |-> IF col \in RawColumns THEN df[i][col]
                                 ELSE DerivedCell(df, i, col)]]

\* df.loc[df['irrigation_type'].isin(['rainfed', 'none']), col] = 0
OverrideRainfed(df, col) ==
    SetColumn(df, col, [i \in Rows(df) |-> IF IsRainfed(df[i]) THEN {0} ELSE df[i][col]])

\* mutant: the median taken before the rainfed rows are forced to 0
ImputeBorewellDepth_MedianFirst(df) ==
    LET m == Median(df, "borewell_depth_ft", Rows(df))
    IN  FillNa(OverrideRainfed(df, "borewell_depth_ft"), "borewell_depth_ft", m)

\* lines 183-186
ImputeBorewellDepth(df) ==
    LET forced == OverrideRainfed(df, "borewell_depth_ft")
    IN  FillNa(forced, "borewell_depth_ft", Median(forced, "borewell_depth_ft", Rows(df)))

\* one turn of the loop over numerical_features: lines 182-186, then
\* 188-190 (forced to 0, gaps filled with 0), 192-198 (the median of the
\* rows of the same state), 199-201 (the median of the column)
ImputeNumerical(df, col) ==
    IF col = "borewell_depth_ft" THEN ImputeBorewellDepth(df)
    ELSE IF col = "borewell_count"
    THEN FillNa(OverrideRainfed(df, "borewell_count"), "borewell_count", {0})
    ELSE IF col \in {"ndvi_score", "soil_moisture_percent"}
    THEN SetColumn(df, col,
            [i \in Rows(df) |-> IF IsNa(df[i][col]) THEN Median(df, col, SameState(df, i))
                                ELSE df[i][col]])
    ELSE IF col = "rainfall_deviation_from_state"
    THEN \* the same median fill, on cells that hold fractions
         LET P == {i \in Rows(df) : ~IsNa(df[i][col])}
             n == Cardinality(P)
             Less(a, b) == a[1] * b[2] < b[1] * a[2]
             KthSmallest(k) ==
                 CHOOSE v \in {The(df[i][col]) : i \in P} :
                     /\ Cardinality({i \in P : Less(The(df[i][col]), v)}) < k
                     /\ Cardinality({i \in P : ~Less(v, The(df[i][col]))}) >= k
             lo == KthSmallest((n + 1) \div 2)
             hi == KthSmallest(n \div 2 + 1)
         IN  FillNa(df, col, IF n = 0 THEN NaN
                             ELSE {Fraction(lo[1] * hi[2] + hi[1] * lo[2], 2 * lo[2] * hi[2])})
    ELSE FillNa(df, col, Median(df, col, Rows(df)))

RECURSIVE ImputeNumericals(_, _)
ImputeNumericals(df, cols) ==
    IF cols = <<>> THEN df
    ELSE ImputeNumericals(ImputeNumerical(df, Head(cols)), Tail(cols))

RECURSIVE ImputeCategoricals(_, _)
\* lines 204-205
ImputeCategoricals(df, cols) ==
    IF cols = <<>> THEN df
    ELSE ImputeCategoricals(FillNa(df, Head(cols), {FirstMode(df, Head(cols))}), Tail(cols))

\* lines 179-205: the imputation step on a working frame;
\* df[col].mode()[0] raises on a column that is all NaN
Impute(df) ==
    IF \E k \in 1..Len(ModelledCategorical) : ModeValues(df, ModelledCategorical[k]) = {}
    THEN [raises |-> TRUE, frame |-> df]
    ELSE [raises |-> FALSE,
          frame |-> ImputeCategoricals(ImputeNumericals(df, ModelledNumerical),
                                       ModelledCategorical)]

NoPrepared ==
    [raises |-> FALSE, engineered |-> <<>>, imputed |-> <<>>, X |-> <<>>,
     feature_columns |-> <<>>, categorical_features |-> <<>>]

\* prepare_features(self, df): self is not read; X is df[feature_columns]
prepare_features(self, df) ==
    LET work == Engineer(df)
        filled == Impute(work)
        ModelledFeatures == ModelledNumerical \o ModelledCategorical
        Select(frame) ==
            [i \in Rows(frame) |-> [col \in Range(ModelledFeatures) |-> frame[i][col]]]
    IN  IF filled.raises
        THEN [NoPrepared EXCEPT !.raises = TRUE, !.engineered = work]
        ELSE [raises |-> FALSE, engineered |-> work, imputed |-> filled.frame,
              X |-> Select(filled.frame),
              feature_columns |-> ModelledFeatures,
              categorical_features |-> ModelledCategorical]

\* mutant: no copy, the caller's frame is the one that was imputed
CallerFrameAfter_InPlace(df, prepared) ==
    IF prepared.raises THEN df
    ELSE [i \in Rows(df) |-> [col \in RawColumns |-> prepared.imputed[i][col]]]

\* line 36, df = df.copy(): the caller's frame after the call
CallerFrameAfter(df, prepared) == df

NoScored == [row |-> 0, ready |-> FALSE, outcome |-> "none", X |-> <<>>]

\* predict_risk_score lines 393-403 on one record: the features the
\* estimator is handed, when it is handed any
predict_on_row(self, row) ==
    IF self.calibrated_model.kind = "None"
    THEN [NoScored EXCEPT !.outcome = "raise"]
    ELSE LET prepared == prepare_features(self, <<row>>)
         IN  IF prepared.raises \/ ~self.model.fitted
             THEN [NoScored EXCEPT !.ready = TRUE, !.outcome = "raise"]
             ELSE [NoScored EXCEPT !.ready = TRUE, !.outcome = "report",
                                   !.X = prepared.X[1]]

NoFrames ==
    [pc |-> "none", batch |-> <<>>, caller |-> <<>>, first |-> NoPrepared,
     second |-> NoPrepared, reimputed |-> <<>>, scored |-> NoScored,
     heldout |-> 0, variant |-> NoPrepared]

-----------------------------------------------------------------------------
(* Concurrent scoring calls *)

\* the scoring calls that may run at the same time against one bundle
Tids == 1..MaxThreads

\* no call begun: a call has no locals before it is entered
NoThreads == [t \in Tids |-> [pc |-> "idle"]]

\* mutant: a scoring step falls back to the raw estimator on the bundle
BundleAfterScoring_Fallback(self) ==
    [self EXCEPT !.calibrated_model = [kind |-> "raw", run |-> self.model.run, iso |-> 0]]

\* self after a step of predict_risk_score: predict_risk_score,
\* prepare_features and _calculate_breakdown assign no attribute of self
BundleAfterScoring(self) == self

\* the caller's dict after pd.DataFrame([farm_data]) and prepare_features,
\* which works on df.copy()
FarmDataAfterScoring(farm_data) == farm_data

\* what every step of call t leaves in its record and in the bundle
StepOf(t, next) ==
    /\ threads' = [threads EXCEPT ![t] =
          [next EXCEPT !.overlapped =
              next.overlapped \/ \E u \in Tids \ {t} : threads[u].pc \notin {"idle", "done"}]]
    /\ bundle' = BundleAfterScoring(bundle)
    /\ UNCHANGED <<disk, server, result, trainlog, call, frames>>

\* a record with nothing missing
DefaultRow ==
    [col \in RawColumns |->
        IF col = "state" THEN {"MH"}
        ELSE IF col = "year" THEN {2024}
        ELSE IF col = "actual_rainfall_mm" THEN {800}
        ELSE IF col = "ndvi_score" THEN {2 * 60}
        ELSE IF col = "soil_moisture_percent" THEN {2 * 30}
        ELSE IF col = "irrigation_type" THEN {"drip"}
        ELSE IF col = "borewell_depth_ft" THEN {2 * 100}
        ELSE IF col = "borewell_count" THEN {2 * 2}
        ELSE IF col = "kcc_score" THEN {2 * 700}
        ELSE IF col = "water_source_count" THEN {2}
        ELSE {"rice"}]

\* The records of a frame come from one family: records that differ in
\* place, time and rainfall; records with satellite readings missing;
\* records that differ in irrigation and borewell; records with a gap in a
\* field filled by the global median or the mode
RowFamilies ==
  LET
    TemporalRows ==
      {[DefaultRow EXCEPT !["state"] = {st}, !["year"] = {y}, !["actual_rainfall_mm"] = {r}] :
        st \in {"MH", "KA"}, y \in {2023, 2024}, r \in {0, 400, 800}}
    SatelliteRows ==
      {[DefaultRow EXCEPT !["state"] = {st}, !["ndvi_score"] = n, !["soil_moisture_percent"] = m] :
        st \in {"MH", "KA"}, n \in {NaN, {2 * 20}, {2 * 60}}, m \in {NaN, {2 * 30}}}
    BorewellRows ==
      {[DefaultRow EXCEPT !["irrigation_type"] = t, !["borewell_depth_ft"] = d,
                        !["borewell_count"] = c] :
        t \in {NaN, {"rainfed"}, {"none"}, {"drip"}}, d \in {NaN, {2 * 100}, {2 * 200}},
        c \in {NaN, {2 * 2}}}
    GlobalRows ==
      {[DefaultRow EXCEPT !["kcc_score"] = k, !["crop_type"] = c] :
        k \in {NaN, {2 * 600}, {2 * 700}}, c \in {NaN, {"rice"}, {"wheat"}}}
  IN  {TemporalRows, SatelliteRows, BorewellRows, GlobalRows}

-----------------------------------------------------------------------------
(* State *)

NoResult ==
    [ op |-> "none", outcome |-> "none", exc |-> NoExc, calls |-> <<>>,
      prob_claim |-> -1, report |-> NoReport, returned |-> EmptyDict,
      status |-> 0, success |-> "none", data |-> <<>>, error |-> "",
      model_loaded |-> FALSE,
      farm |-> WellFormedFarm, raw |-> 0, contributions |-> ZeroContributions,
      runs_before |-> 0, valid |-> TRUE ]

SomeCall == [farm |-> WellFormedFarm, raw |-> PScale \div 4, contributions |-> SomeContributions]

\* the records scored concurrently, with the estimator's answers for each
ConcurrentCalls ==
    { SomeCall,
      [farm |-> WellFormedFarm, raw |-> (3 * PScale) \div 4,
       contributions |-> ZeroContributions],
      [farm |-> [keys |-> DatasetFields \ {"ndvi_score"}, nonint |-> {}],
       raw |-> PScale \div 4, contributions |-> SomeContributions] }

\* A new bundle, no saved artifact, the server not started
Constructed ==
    /\ bundle = NewBundle
    /\ disk = NoDisk
    /\ server = [started |-> FALSE, loaded |-> FALSE, model |-> NewBundle]
    /\ result = NoResult
    /\ trainlog = NoLog
    /\ frames = NoFrames
    /\ threads = NoThreads

Init ==
    /\ Constructed
    /\ \E farm \in {WellFormedFarm} \cup MalformedFarms :
          call = [SomeCall EXCEPT !.farm = farm]

-----------------------------------------------------------------------------
(* The offline process: train, predict_risk_score, save *)

\* model.train(df): sp is the outcome of the two splits, env what the
\* estimator, the calibrator and the plotting do
TrainCall(df, sp, env) ==
    /\ bundle' = TrainedBundle(bundle, trainlog.run + 1, sp, env)
    /\ trainlog' = TrainLogOf(trainlog.run + 1, df, sp, env)
    /\ result' =
         IF TrainStage(sp, env) = "done"
         THEN [NoResult EXCEPT !.op = "train", !.outcome = "return",
                               !.returned = MetricsOf(env.q),
                               !.runs_before = trainlog.run]
         ELSE [NoResult EXCEPT !.op = "train", !.outcome = "raise",
                               !.exc = [cls |-> IF sp.ok THEN "Exception" ELSE "ValueError",
                                        msg |-> TrainStage(sp, env)],
                               !.runs_before = trainlog.run]
    /\ UNCHANGED <<disk, server, call, frames, threads>>

\* train() on a bundle not trained MaxRuns times yet
Train(df, sp, env) ==
    /\ trainlog.run < MaxRuns
    /\ TrainCall(df, sp, env)

\* train() once more on a bundle that was already handed to train()
Retrain(df, sp, env) ==
    /\ trainlog.run > 0
    /\ trainlog.run <= MaxRetrains
    /\ TrainCall(df, sp, env)

\* model.predict_risk_score(farm_data) on the offline bundle
PredictRiskScore(farm, raw, contributions) ==
    /\ LET r == predict_risk_score(bundle, farm, raw, contributions)
       IN  result' = [NoResult EXCEPT !.op = "predict_risk_score",
                                      !.outcome = r.outcome, !.exc = r.exc,
                                      !.calls = r.calls,
                                      !.prob_claim = r.prob_claim,
                                      !.report = r.report,
                                      !.farm = farm, !.raw = raw,
                                      !.contributions = contributions,
                                      !.runs_before = trainlog.run]
    /\ UNCHANGED <<bundle, disk, server, trainlog, call, frames, threads>>

\* model.save(path): the pickle and the metadata file
Save ==
    /\ disk' = [exists |-> TRUE, pkl |-> bundle, metadata |-> MetadataOf(bundle)]
    /\ result' = [NoResult EXCEPT !.op = "save", !.outcome = "return",
                                  !.runs_before = trainlog.run]
    /\ UNCHANGED <<bundle, server, trainlog, call, frames, threads>>

\* prepare_features(df) on the caller's frame, as train() calls it (line 214)
Transform ==
    /\ frames.pc = "new"
    /\ LET prepared == prepare_features(bundle, frames.caller)
       IN  frames' = [frames EXCEPT !.pc = "transformed", !.first = prepared,
                                    !.caller = CallerFrameAfter(frames.caller, prepared)]
    /\ UNCHANGED <<bundle, disk, server, result, trainlog, call, threads>>

\* a second prepare_features call on the same frame
TransformAgain ==
    /\ frames.pc = "transformed"
    /\ LET prepared == prepare_features(bundle, frames.caller)
       IN  frames' = [frames EXCEPT !.pc = "again", !.second = prepared,
                                    !.caller = CallerFrameAfter(frames.caller, prepared)]
    /\ UNCHANGED <<bundle, disk, server, result, trainlog, call, threads>>

\* train() lines 214-235 on a second dataset that differs from the frame in
\* record k alone, which takes the field values of record j.  k is a record
\* the split holds out: train_test_split draws from the row positions, the
\* labels and random_state, none of which differ, and X[i] for i # k is what
\* the estimator's fit is handed.
TransformVariant(k, j) ==
    /\ frames.pc = "transformed"
    /\ k # j
    /\ frames' = [frames EXCEPT
          !.pc = "varied", !.heldout = k,
          !.variant = prepare_features(bundle, [frames.batch EXCEPT ![k] = frames.batch[j]])]
    /\ UNCHANGED <<bundle, disk, server, result, trainlog, call, threads>>

\* the imputation step once more, on the frame the first call imputed
Reimpute ==
    /\ frames.pc = "again"
    /\ frames' = [frames EXCEPT !.pc = "reimputed",
                     !.reimputed = IF frames.first.raises THEN <<>>
                                   ELSE Impute(frames.first.imputed).frame]
    /\ UNCHANGED <<bundle, disk, server, result, trainlog, call, threads>>

\* predict_risk_score on record i of the frame, alone
ScoreRow(i) ==
    /\ frames.pc = "reimputed"
    /\ frames' = [frames EXCEPT !.pc = "scored",
                     !.scored = [predict_on_row(bundle, frames.batch[i]) EXCEPT !.row = i]]
    /\ UNCHANGED <<bundle, disk, server, result, trainlog, call, threads>>

-----------------------------------------------------------------------------
(* The server: api_server.py *)

\* mutant: the model is loaded again whenever the hook is run
Startup_Retrying ==
    /\ server' = [ started |-> TRUE,
                   loaded |-> LoadRaises(disk).cls = "none",
                   model |-> IF LoadRaises(disk).cls = "none" THEN disk.pkl ELSE NewBundle ]
    /\ result' = [NoResult EXCEPT !.op = "startup", !.outcome = "return",
                                  !.exc = LoadRaises(disk)]
    /\ UNCHANGED <<bundle, disk, trainlog, call, frames, threads>>

\* @app.on_event("startup") load_model
Startup ==
    /\ ~server.started
    /\ server' = [ started |-> TRUE,
                   loaded |-> LoadRaises(disk).cls = "none",
                   model |-> IF LoadRaises(disk).cls = "none" THEN disk.pkl ELSE NewBundle ]
    /\ result' = [NoResult EXCEPT !.op = "startup", !.outcome = "return",
                                  !.exc = LoadRaises(disk)]
    /\ UNCHANGED <<bundle, disk, trainlog, call, frames, threads>>

Http(op, status) ==
    [NoResult EXCEPT !.op = op, !.outcome = "http", !.status = status,
                     !.model_loaded = server.loaded]

\* GET /
Root ==
    /\ server.started
    /\ result' = Http("/", 200)
    /\ UNCHANGED <<bundle, disk, server, trainlog, call, frames, threads>>

\* GET /health
HealthCheck ==
    /\ server.started
    /\ result' = [Http("/health", 200) EXCEPT
                     !.error = IF server.loaded THEN "Model loaded" ELSE "Model not loaded"]
    /\ UNCHANGED <<bundle, disk, server, trainlog, call, frames, threads>>

\* The body of /predict for one dumped request, model loaded
PredictBody(op, farm, raw, contributions) ==
    LET r == predict_risk_score(server.model, farm, raw, contributions)
    IN  IF r.outcome = "report"
        THEN [Http(op, 200) EXCEPT !.success = "true", !.data = <<r.report>>,
                                   !.calls = r.calls, !.prob_claim = r.prob_claim]
        ELSE [Http(op, 200) EXCEPT !.success = "false", !.exc = r.exc,
                                   !.error = r.exc.msg, !.calls = r.calls]

\* POST /predict.  A body the schema rejects never reaches the handler (422).
Predict(valid, raw, contributions) ==
    /\ server.started
    /\ result' =
         [ (IF ~valid THEN Http("/predict", 422)
            ELSE IF ~server.loaded
            THEN [Http("/predict", 503) EXCEPT !.error = "Model not loaded"]
            ELSE PredictBody("/predict", SchemaFarm, raw, contributions))
           EXCEPT !.valid = valid, !.farm = SchemaFarm, !.raw = raw,
                  !.contributions = contributions ]
    /\ UNCHANGED <<bundle, disk, server, trainlog, call, frames, threads>>

\* POST /predict/batch with k inputs: the first exception ends the loop
PredictBatch(valid, k, raw, contributions) ==
    /\ server.started
    /\ result' =
         [ (IF ~valid THEN Http("/predict/batch", 422)
            ELSE IF ~server.loaded
            THEN [Http("/predict/batch", 503) EXCEPT !.error = "Model not loaded"]
            ELSE IF k = 0
            THEN [Http("/predict/batch", 200) EXCEPT !.success = "true"]
            ELSE LET one == PredictBody("/predict/batch", SchemaFarm, raw, contributions)
                 IN  IF one.success = "true"
                     THEN [one EXCEPT !.data = [i \in 1..k |-> one.data[1]]]
                     ELSE one)
           EXCEPT !.valid = valid, !.farm = SchemaFarm, !.raw = raw,
                  !.contributions = contributions ]
    /\ UNCHANGED <<bundle, disk, server, trainlog, call, frames, threads>>

\* GET /model/info
ModelInfo ==
    /\ server.started
    /\ result' =
         IF ~server.loaded
         THEN [Http("/model/info", 503) EXCEPT !.error = "Model not loaded"]
         ELSE [Http("/model/info", 200) EXCEPT !.returned = server.model.metrics]
    /\ UNCHANGED <<bundle, disk, server, trainlog, call, frames, threads>>

-----------------------------------------------------------------------------
(* Specifications *)

\* The whole life of a bundle: training, saving, serving
Next ==
    \/ \E env \in Environments : Train(SomeDataset, SomeSplit, env)
    \/ PredictRiskScore(call.farm, call.raw, call.contributions)
    \/ Save
    \/ Startup
    \/ Root
    \/ HealthCheck
    \/ \E valid \in BOOLEAN : Predict(valid, PScale \div 4, SomeContributions)
    \/ \E valid \in BOOLEAN, k \in 0..MaxBatch :
          PredictBatch(valid, k, PScale \div 4, SomeContributions)
    \/ ModelInfo

Spec == Init /\ [][Next]_vars

\* Scoring: one call for each probability the estimator can answer
InitScore ==
    /\ Constructed
    /\ \E raw \in Probabilities : call = [SomeCall EXCEPT !.raw = raw]

NextScore ==
    \/ \E env \in Environments : Train(SomeDataset, SomeSplit, env)
    \/ PredictRiskScore(call.farm, call.raw, call.contributions)

SpecScore == InitScore /\ [][NextScore]_vars

\* Explanation: one call for each contribution vector
InitExplain ==
    /\ Constructed
    /\ \E s \in WindowStarts, v \in WindowValues :
          call = [SomeCall EXCEPT !.contributions = WindowVector(s, v)]

NextExplain ==
    \/ Train(SomeDataset, SomeSplit, SomeEnvironment)
    \/ PredictRiskScore(call.farm, call.raw, call.contributions)

SpecExplain == InitExplain /\ [][NextExplain]_vars

\* Training: one run of a new bundle, over every dataset and every split
NextTrain ==
    \/ /\ trainlog.run = 0
       /\ \E df \in Datasets : \E sp \in SplitOutcomes(df) :
             \E env \in {e \in EnvironmentsFor(df, sp) : e.q = 0 /\ e.iso = 0} :
                Train(df, sp, env)
    \/ PredictRiskScore(call.farm, call.raw, call.contributions)

InitTrain ==
    /\ Constructed
    /\ call = SomeCall

SpecTrain == InitTrain /\ [][NextTrain]_vars

\* The train() calls of the lifecycle: a dataset that trains; one of a
\* single record, on which the first train_test_split raises; one where
\* nobody filed a claim, which splits and on which the estimator's fit
\* raises (a target with one unique value)
LifecycleRuns ==
    LET TinyDataset == [n |-> 1, pos |-> 1]
        OneClassDataset == [n |-> MaxRecords, pos |-> 0]
        OneClassSplit == CHOOSE sp \in SplitOutcomes(OneClassDataset) : sp.ok
    IN  {<<SomeDataset, SomeSplit, e>> :
            e \in {e \in EnvironmentsFor(SomeDataset, SomeSplit) : e.q = 0 /\ e.iso = 0}}
        \cup {<<TinyDataset, NoSplit, SomeEnvironment>>}
        \cup {<<OneClassDataset, OneClassSplit, e>> :
            e \in {e \in EnvironmentsFor(OneClassDataset, OneClassSplit) :
                      e.q = 0 /\ e.iso = 0 /\ ~e.calib_fails}}

\* Lifecycle: train() called on one bundle more than once, scoring and save
NextLifecycle ==
    \/ \E r \in LifecycleRuns : Train(r[1], r[2], r[3])
    \/ \E r \in LifecycleRuns : Retrain(r[1], r[2], r[3])
    \/ PredictRiskScore(call.farm, call.raw, call.contributions)
    \/ Save

SpecLifecycle == InitTrain /\ [][NextLifecycle]_vars

\* predict_risk_score is entered with farm_data.  farm, raw and
\* contributions are the call's inputs, farm_data the caller's dict, seen
\* the bundle the call found, overlapped whether another call was in
\* progress at one of its steps.
BeginScoring(t, c) ==
    /\ threads[t].pc = "idle"
    /\ StepOf(t, [ pc |-> "guard", farm |-> c.farm, raw |-> c.raw,
                   contributions |-> c.contributions, farm_data |-> c.farm,
                   seen |-> bundle, prob_claim |-> -1,
                   out |-> [outcome |-> "none", exc |-> NoExc, calls |-> <<>>,
                            prob_claim |-> -1, report |-> NoReport],
                   overlapped |-> FALSE ])

\* line 393: if self.calibrated_model is None: raise
GuardStep(t) ==
    /\ threads[t].pc = "guard"
    /\ StepOf(t, IF bundle.calibrated_model.kind = "None"
                 THEN [threads[t] EXCEPT !.pc = "done", !.out = Raise(NotReadyError, <<>>)]
                 ELSE [threads[t] EXCEPT !.pc = "prepare"])

\* lines 397-400: the one-row frame and prepare_features
PrepareStep(t) ==
    LET self == threads[t]
        exc == prepare_features_raises(self.farm_data)
    IN  /\ self.pc = "prepare"
        /\ StepOf(t, IF exc.cls # "none"
                     THEN [self EXCEPT !.pc = "done",
                                       !.farm_data = FarmDataAfterScoring(self.farm_data),
                                       !.out = Raise(exc, <<"prepare_features">>)]
                     ELSE [self EXCEPT !.pc = "proba",
                                       !.farm_data = FarmDataAfterScoring(self.farm_data)])

\* line 403: self.calibrated_model.predict_proba(X_processed)[0, 1]
ProbaStep(t) ==
    /\ threads[t].pc = "proba"
    /\ StepOf(t, [threads[t] EXCEPT !.pc = "shap",
                     !.prob_claim = predict_proba(bundle.calibrated_model, threads[t].raw)])

\* lines 423-427: self.model.get_feature_importance(pool, type='ShapValues')
ShapStep(t) ==
    /\ threads[t].pc = "shap"
    /\ StepOf(t, IF ~bundle.model.fitted
                 THEN [threads[t] EXCEPT !.pc = "done", !.out =
                          Raise([cls |-> "CatBoostError", msg |-> "Model is not fitted"],
                                <<"prepare_features", "predict_proba", "get_feature_importance">>)]
                 ELSE [threads[t] EXCEPT !.pc = "report"])

\* lines 430-464: the breakdown, the drivers and the returned dict
ReportStep(t) ==
    LET self == threads[t]
    IN  /\ self.pc = "report"
        /\ StepOf(t, [self EXCEPT !.pc = "done", !.out =
              [ outcome |-> "report", exc |-> NoExc,
                calls |-> <<"prepare_features", "predict_proba", "get_feature_importance">>,
                prob_claim |-> self.prob_claim,
                report |-> ReportOf(bundle.feature_names, self.farm_data,
                                    self.prob_claim, self.contributions) ]])

\* Concurrency: one bundle, trained or not, and MaxThreads scoring calls
\* whose steps interleave
NextConcurrent ==
    \/ /\ trainlog.run = 0
       /\ \A t \in Tids : threads[t].pc = "idle"
       /\ \E r \in LifecycleRuns : Train(r[1], r[2], r[3])
    \/ \E t \in Tids, c \in ConcurrentCalls : BeginScoring(t, c)
    \/ \E t \in Tids : GuardStep(t)
    \/ \E t \in Tids : PrepareStep(t)
    \/ \E t \in Tids : ProbaStep(t)
    \/ \E t \in Tids : ShapStep(t)
    \/ \E t \in Tids : ReportStep(t)

SpecConcurrent == InitTrain /\ [][NextConcurrent]_vars

\* Feature engineering: a frame of up to MaxRows records is transformed
\* twice, imputed once more, and one of its records is scored alone
InitFeatures ==
    /\ bundle = NewBundle
    /\ disk = NoDisk
    /\ server = [started |-> FALSE, loaded |-> FALSE, model |-> NewBundle]
    /\ result = NoResult
    /\ trainlog = NoLog
    /\ call = SomeCall
    /\ threads = NoThreads
    /\ \E n \in 1..MaxRows, family \in RowFamilies : \E b \in [1..n -> family] :
          frames = [NoFrames EXCEPT !.pc = "new", !.batch = b, !.caller = b]

NextFeatures ==
    \/ trainlog.run = 0 /\ Train(SomeDataset, SomeSplit, SomeEnvironment)
    \/ Transform
    \/ TransformAgain
    \/ \E k, j \in Rows(frames.batch) : TransformVariant(k, j)
    \/ Reimpute
    \/ \E i \in Rows(frames.batch) : ScoreRow(i)

SpecFeatures == InitFeatures /\ [][NextFeatures]_vars

-----------------------------------------------------------------------------
(* Claims *)

IsReport == result.op = "predict_risk_score" /\ result.outcome = "report"

\* C1: every emitted risk_score is in 0..100 and fixes category and label:
\* >= 75 low; 50..74 medium; 25..49 high with "High Risk"; < 25 high with
\* "Critical Risk"; both the category and the label are emitted.
C1_CategoryLabelByThreshold ==
    IsReport =>
        LET score == result.report.risk_score
            cat == result.report.risk_category
            label == result.report.category_label
        IN  /\ score \in 0..100
            /\ cat \in {"low", "medium", "high"}
            /\ label \in {"Low Risk (Safe)", "Moderate Risk", "High Risk", "Critical Risk"}
            /\ score >= 75 => cat = "low"
            /\ (score >= 50 /\ score < 75) => cat = "medium"
            /\ (score >= 25 /\ score < 50) => (cat = "high" /\ label = "High Risk")
            /\ score < 25 => (cat = "high" /\ label = "Critical Risk")

C1_Witness ==
    /\ IsReport
    /\ result.report.risk_score = 25
    /\ result.report.category_label = "High Risk"

\* C2 as stated: risk_score is the nearest integer to (1 - p) * 100, lies in
\* 0..100, and does not increase with p.
C2_NearestInteger ==
    IsReport =>
        LET p == result.prob_claim
            score == result.report.risk_score
        IN  /\ score \in 0..100
            /\ 2 * Abs(score * PScale - (PScale - p) * 100) <= PScale
            /\ p > 0 => RiskScoreOf(p - 1) >= score

\* C2 as amended: risk_score is (1 - p) * 100 truncated to an integer (the
\* largest integer not above it), lies in 0..100, and does not increase with p.
C2_TruncatedScore ==
    IsReport =>
        LET p == result.prob_claim
            score == result.report.risk_score
        IN  /\ score \in 0..100
            /\ score * PScale <= (PScale - p) * 100
            /\ (PScale - p) * 100 < (score + 1) * PScale
            /\ p > 0 => RiskScoreOf(p - 1) >= score

\* a score whose fraction of one half or more was cut
C2_Witness ==
    /\ IsReport
    /\ 2 * (((PScale - result.prob_claim) * 100) % PScale) >= PScale
    /\ result.report.risk_score * PScale < (PScale - result.prob_claim) * 100

\* C3: each of the four breakdown values is an integer between 0 and 25.
C3_BreakdownBounds ==
    IsReport =>
        /\ DOMAIN result.report.breakdown =
              {"weather_risk", "infrastructure", "diversification", "financial_health"}
        /\ \A k \in DOMAIN result.report.breakdown : result.report.breakdown[k] \in 0..25

\* all contribution in one bucket: that bucket at the end of the scale
C3_Witness ==
    /\ IsReport
    /\ result.report.breakdown.infrastructure = 25
    /\ result.report.breakdown.weather_risk = 12

\* the summed weather contribution of a call
WeatherShap(names, contributions) == BucketShap(names, contributions, "weather")

\* C4: a negative weather total gives weather_risk <= 12, a positive one
\* weather_risk >= 12, and lowering one weather contribution (the other
\* buckets as they are) never raises weather_risk.
C4_FavourableWeatherLowers ==
    IsReport =>
        LET names == feature_columns
            c == result.contributions
            lower == [c EXCEPT ![3] = c[3] - 1]
        IN  /\ WeatherShap(names, c) < 0 => result.report.breakdown.weather_risk <= 12
            /\ WeatherShap(names, c) > 0 => result.report.breakdown.weather_risk >= 12
            /\ _calculate_breakdown(names, lower).weather_risk
                  <= result.report.breakdown.weather_risk

BucketsOf(f) == {b \in BucketNames : f \in BucketFeatures(b)}

\* C5: every feature name of the bundle is in exactly one bucket, so the four
\* bucket totals add up to the sum of all contributions.
C5_EveryFeatureInOneBucket ==
    IsReport =>
        /\ \A i \in 1..Len(bundle.feature_names) :
              Cardinality(BucketsOf(bundle.feature_names[i])) = 1
        /\ BucketShap(bundle.feature_names, result.contributions, "weather")
           + BucketShap(bundle.feature_names, result.contributions, "infrastructure")
           + BucketShap(bundle.feature_names, result.contributions, "diversification")
           + BucketShap(bundle.feature_names, result.contributions, "financial")
           = SumOver(result.contributions,
                     {i \in 1..NumFeatures : result.contributions[i] # 0})

IndexOf(names, f) == CHOOSE i \in 1..Len(names) : names[i] = f

\* i is ranked before j: the larger value, or the equal value and earlier name
RankedBefore(value, i, j) == value[i] > value[j] \/ (value[i] = value[j] /\ i < j)

\* list names the (up to) 3 features with the largest value > 0, in rank order,
\* and no feature left out is ranked before one that is in
IsTop3(names, value, list) ==
    LET candidates == {i \in 1..Len(names) : value[i] > 0}
        at(k) == IndexOf(names, list[k].factor)
    IN  /\ Len(list) = Min2(3, Cardinality(candidates))
        /\ \A k \in 1..Len(list) : at(k) \in candidates
        /\ \A k, l \in 1..Len(list) : k < l => RankedBefore(value, at(k), at(l))
        /\ \A j \in candidates \ {at(k) : k \in 1..Len(list)} :
              \A k \in 1..Len(list) : RankedBefore(value, at(k), j)

\* C6 as stated: the drivers are the top 3 positive contributions with their
\* signed value, the protective factors the top 3 negative ones by magnitude
\* with their absolute value; equal values in feature order.
C6_TopFactorsExact ==
    IsReport =>
        LET names == bundle.feature_names
            c == result.contributions
            neg == [i \in 1..NumFeatures |-> -c[i]]
            drivers == result.report.top_risk_drivers
            protective == result.report.top_protective_factors
        IN  /\ IsTop3(names, c, drivers)
            /\ IsTop3(names, neg, protective)
            /\ \A k \in 1..Len(drivers) :
                  3 * drivers[k].impact = c[IndexOf(names, drivers[k].factor)]
            /\ \A k \in 1..Len(protective) :
                  3 * protective[k].impact = neg[IndexOf(names, protective[k].factor)]

\* C6 as amended: the same lists, each value reported rounded to three
\* decimals (the nearest thousandth).
C6_TopFactorsRounded ==
    IsReport =>
        LET names == bundle.feature_names
            c == result.contributions
            neg == [i \in 1..NumFeatures |-> -c[i]]
            drivers == result.report.top_risk_drivers
            protective == result.report.top_protective_factors
        IN  /\ IsTop3(names, c, drivers)
            /\ IsTop3(names, neg, protective)
            /\ \A k \in 1..Len(drivers) :
                  Abs(3 * drivers[k].impact - c[IndexOf(names, drivers[k].factor)]) <= 1
            /\ \A k \in 1..Len(protective) :
                  /\ protective[k].impact >= 0
                  /\ Abs(3 * protective[k].impact
                         - neg[IndexOf(names, protective[k].factor)]) <= 1

\* four drivers compete for three places, two of them with equal values
C6_Witness ==
    /\ IsReport
    /\ Cardinality({i \in 1..NumFeatures : result.contributions[i] > 0}) = 4
    /\ Len(result.report.top_risk_drivers) = 3
    /\ \E i, j \in 1..NumFeatures :
          /\ i < j
          /\ result.contributions[i] = result.contributions[j]
          /\ result.contributions[i] > 0
          /\ result.report.top_risk_drivers[3].factor = feature_columns[i]
    /\ result.report.top_risk_drivers[1].impact * 3
          # result.contributions[IndexOf(feature_columns, result.report.top_risk_drivers[1].factor)]

HandlerOps == {"/predict", "/predict/batch", "/model/info"}

NotReadyKind ==
    predict_risk_score(NewBundle, WellFormedFarm, 0, ZeroContributions).exc.cls

\* C8: the kind of error a malformed record produces is never the kind an
\* unfitted bundle produces, and /predict does not report a scoring failure
\* with the status of a success.
C8_DistinctErrorKinds ==
    /\ ( /\ result.op = "predict_risk_score"
         /\ result.outcome = "raise"
         /\ result.calls = <<"prepare_features">> ) =>
          result.exc.cls # NotReadyKind
    /\ (result.op = "/predict" /\ result.exc.cls # "none") => result.status # 200

\* C9: after a training run whose calibrator fit raised, train() returned the
\* metrics, scoring uses the raw probability as it is, and what save() writes
\* as metadata differs from that of every run whose calibration succeeded.
C9_FallbackObservable ==
    /\ (result.op = "train" /\ trainlog.stage = "done" /\ trainlog.calib_failed) =>
          /\ result.outcome = "return"
          /\ result.returned = bundle.metrics
    /\ (IsReport /\ result.runs_before = trainlog.run /\ trainlog.calib_failed) =>
          result.prob_claim = result.raw
    /\ (trainlog.stage = "done" /\ trainlog.calib_failed) =>
          \A env \in Environments :
             (~env.calib_fails /\ env.fail_at = "none") =>
                MetadataOf(bundle)
                   # MetadataOf(TrainedBundle(NewBundle, trainlog.run, trainlog.split, env))

\* C10: the three splits are pairwise disjoint and cover the dataset; the
\* estimator is fit on the train split with early stopping on the validation
\* split, the calibrator on the test split, and no record serves both.
C10_SplitsDisjoint ==
    trainlog.stage \notin {"none", "split_failed"} =>
        LET sp == trainlog.split
        IN  /\ sp.train \cap sp.val = {}
            /\ sp.train \cap sp.test = {}
            /\ sp.val \cap sp.test = {}
            /\ sp.train \cup sp.val \cup sp.test = 1..trainlog.df.n
            /\ trainlog.estimator_fit_on = sp.train
            /\ trainlog.early_stop_on = sp.val
            /\ trainlog.calibrator_fit_on \subseteq sp.test
            /\ (trainlog.estimator_fit_on \cup trainlog.early_stop_on)
                  \cap trainlog.calibrator_fit_on = {}

C10_Witness ==
    /\ trainlog.stage = "done"
    /\ trainlog.calibrator_fit_on = trainlog.split.test
    /\ trainlog.calibrator_fit_on # {}
    /\ trainlog.early_stop_on # {}

\* C12: after every step the bundle's estimator, calibrator and name lists
\* come from one training run, and a train() call that raised has left the
\* bundle exactly as it was before the call.
C12_AtomicReplacement ==
    [][ LET TrainRaised == trainlog'.run = trainlog.run + 1 /\ trainlog'.stage # "done"
            FromOneRun(b) ==
                b.calibrated_model.kind # "None" =>
                    /\ b.model.fitted
                    /\ b.model.run = b.calibrated_model.run
                    /\ b.feature_names = feature_columns
        IN  FromOneRun(bundle') /\ (TrainRaised => bundle' = bundle) ]_vars

\* C13: once train() has completed on the bundle, no later step changes its
\* estimator, calibrator, name lists, metrics or feature importance.
C13_FitAtMostOnce ==
    [][trainlog.stage = "done" => bundle' = bundle]_vars

\* the least number of records the training contract asks for
MinTrainingRecords == 2000

\* C18: a train() call on insufficient data, where nothing else went wrong,
\* has raised and returned no metrics, the bundle has no calibrator and no
\* metrics, and a scoring call after it reports not-ready.
C18_InsufficientDataFails ==
    LET df == trainlog.df
        sp == trainlog.split
        Insufficient ==
            \/ df.n < MinTrainingRecords
            \/ Cardinality(ClassesIn(df, 1..df.n)) < 2
            \/ sp.ok /\ \E S \in {sp.train, sp.val, sp.test} :
                            Cardinality(ClassesIn(df, S)) < 2
    IN  ( /\ trainlog.run > 0
          /\ Insufficient
          /\ trainlog.stage \notin {"evaluate_failed", "plot_failed"} ) =>
            /\ trainlog.stage # "done"
            /\ bundle.calibrated_model = NoCalibrator
            /\ bundle.metrics = EmptyDict
            /\ result.op = "train" => (result.outcome = "raise" /\ result.returned = EmptyDict)
            /\ (result.op = "predict_risk_score" /\ result.runs_before = trainlog.run) =>
                  result.exc = NotReadyError

C15_SameVectorInAnyBatch ==
    ( /\ frames.pc = "scored"
      /\ frames.scored.outcome = "report"
      /\ ~frames.first.raises ) =>
        frames.scored.X = frames.first.X[frames.scored.row]

\* C16: a record scored alone with ndvi_score and soil_moisture_percent
\* missing is scored, and the two features the estimator gets are the
\* medians of the training records of its state.
C16_StoredStateMedian ==
    LET i == frames.scored.row
        TrainingStateMedian(col, r) == Median(frames.batch, col, SameState(frames.batch, r))
    IN  ( /\ frames.pc = "scored"
          /\ frames.scored.ready
          /\ IsNa(frames.batch[i]["ndvi_score"])
          /\ IsNa(frames.batch[i]["soil_moisture_percent"])
          /\ ~IsNa(TrainingStateMedian("ndvi_score", i))
          /\ ~IsNa(TrainingStateMedian("soil_moisture_percent", i)) ) =>
            /\ frames.scored.outcome = "report"
            /\ frames.scored.X["ndvi_score"] = TrainingStateMedian("ndvi_score", i)
            /\ frames.scored.X["soil_moisture_percent"]
                  = TrainingStateMedian("soil_moisture_percent", i)

\* C17: a record with a missing value in a field of the feature contract is
\* not scored: the call raises and the estimator is handed nothing.
C17_RejectsMissingValues ==
    ( /\ frames.pc = "scored"
      /\ frames.scored.ready
      /\ \E col \in RawColumns : IsNa(frames.batch[frames.scored.row][col]) ) =>
        /\ frames.scored.outcome = "raise"
        /\ frames.scored.X = <<>>

\* C19: the imputation step applied to the frame it has already imputed
\* changes no value.
C19_ImputationIdempotent ==
    (frames.pc \in {"reimputed", "scored"} /\ ~frames.first.raises) =>
        frames.reimputed = frames.first.imputed

\* C20: a record whose irrigation_type is rainfed or none has
\* borewell_depth_ft 0 and borewell_count 0 in its feature vector, and a
\* missing borewell_depth_ft of any other record is filled with the median
\* of the depths after the rainfed records were set to 0.
C20_RainfedOverrideFirst ==
    LET ForcedDepths == OverrideRainfed(frames.batch, "borewell_depth_ft")
    IN  (frames.pc # "new" /\ ~frames.first.raises) =>
            \A i \in Rows(frames.batch) :
                /\ IsRainfed(frames.batch[i]) =>
                      /\ frames.first.X[i]["borewell_depth_ft"] = {0}
                      /\ frames.first.X[i]["borewell_count"] = {0}
                /\ (~IsRainfed(frames.batch[i]) /\ IsNa(frames.batch[i]["borewell_depth_ft"])) =>
                      frames.first.X[i]["borewell_depth_ft"]
                         = Median(ForcedDepths, "borewell_depth_ft", Rows(frames.batch))

\* a gap filled with 0 because the only depth on record belongs to a rainfed farm
C20_Witness ==
    /\ frames.pc = "transformed"
    /\ ~frames.first.raises
    /\ \E i, j \in Rows(frames.batch) :
          /\ IsRainfed(frames.batch[i])
          /\ frames.batch[i]["borewell_depth_ft"] = {2 * 200}
          /\ frames.batch[j]["irrigation_type"] = {"drip"}
          /\ IsNa(frames.batch[j]["borewell_depth_ft"])
          /\ frames.first.X[j]["borewell_depth_ft"] = {0}


\* C11: while a scoring call is in progress and after it has returned, the
\* bundle is the bundle the call found and the caller's record is the record
\* handed in; what the call returns is what predict_risk_score returns for
\* that record on that bundle when it runs alone.
C11_ScoringIsolated ==
    \A t \in Tids :
        /\ threads[t].pc # "idle" =>
              /\ bundle = threads[t].seen
              /\ threads[t].farm_data = threads[t].farm
        /\ threads[t].pc = "done" =>
              threads[t].out = predict_risk_score(threads[t].seen, threads[t].farm,
                                                  threads[t].raw, threads[t].contributions)

\* two calls on a trained bundle, each with a step taken while the other
\* was in progress, returned different reports
C11_Witness ==
    \E t, u \in Tids :
        /\ threads[t].pc = "done" /\ threads[u].pc = "done"
        /\ threads[t].overlapped /\ threads[u].overlapped
        /\ threads[t].out.outcome = "report" /\ threads[u].out.outcome = "report"
        /\ threads[t].out.report # threads[u].out.report
        /\ bundle.calibrated_model.kind = "calibrated"

\* C21: a record scored alone has rainfall_deviation_from_state exactly
\* zero in its feature vector, whatever its rainfall (0 included).
C21_SingleRecordDeviationZero ==
    (frames.pc = "scored" /\ frames.scored.outcome = "report") =>
        frames.scored.X["rainfall_deviation_from_state"] = {<<0, 1>>}

\* C22: in every feature vector has_deep_borewell is 1 exactly when the
\* vector's borewell_depth_ft is above 150, and water_security_index is the
\* weighted sum taken with the vector's borewell_depth_ft.
C22_DerivedAgreeWithEmitted ==
    (frames.pc # "new" /\ ~frames.first.raises) =>
        \A i \in Rows(frames.batch) :
            LET x == frames.first.X[i]
                depth == x["borewell_depth_ft"]
                rest == (IF frames.batch[i]["irrigation_type"] = {"drip"} THEN 950 ELSE 0)
                        + Min2(The(frames.batch[i]["water_source_count"]), 4) * 150
            IN  /\ x["has_deep_borewell"] = {1} <=> (~IsNa(depth) /\ The(depth) > 2 * 150)
                /\ x["water_security_index"] =
                      IF IsNa(depth) THEN NaN ELSE {rest + Min2(The(depth), 2 * 200)}

\* C26: of two datasets that differ only in the field values of a held-out
\* record, the feature rows of all other records, which the estimator's fit
\* is handed, are the same.
C26_HeldOutUntouched ==
    (frames.pc = "varied" /\ ~frames.first.raises /\ ~frames.variant.raises) =>
        \A i \in Rows(frames.batch) \ {frames.heldout} :
            frames.variant.X[i] = frames.first.X[i]

\* C24: once the startup hook has run, no step changes the server's model
\* reference; with the model unset every request that reaches the handler
\* of /predict, /predict/batch or /model/info is answered 503, and / and
\* /health report model_loaded as the reference is.
C24_ModelSetOnlyAtStartup ==
    [][ /\ server.started => server' = server
        /\ (result'.op \in HandlerOps /\ result'.valid /\ ~server'.loaded) =>
              result'.status = 503
        /\ result'.op \in {"/", "/health"} => result'.model_loaded = server'.loaded ]_vars

\* a request answered 503 although a loadable artifact has been saved since
\* the startup hook failed
C24_Witness ==
    /\ server.started /\ ~server.loaded
    /\ LoadRaises(disk).cls = "none"
    /\ result.op = "/predict" /\ result.valid
    /\ result.status = 503

\* C24 as stated: with the model unset every request to /predict,
\* /predict/batch and /model/info is answered 503.
C24_EveryRequest503 ==
    [][ /\ server.started => server' = server
        /\ (result'.op \in HandlerOps /\ ~server'.loaded) => result'.status = 503
        /\ result'.op \in {"/", "/health"} => result'.model_loaded = server'.loaded ]_vars

\* C23: the dump of every body PredictionInput accepts has, under the same
\* names, every raw column prepare_features reads, and a schema-valid
\* /predict request on a loaded server is answered success=true.
C23_SchemaSuppliesRawFields ==
    (result.op = "/predict" /\ result.valid /\ result.model_loaded) =>
        /\ Range(RawAccessOrder) \subseteq result.farm.keys
        /\ result.success = "true"

\* C25: for every bundle state save leaves the bundle unchanged and writes
\* it whole, and load of the saved artifact succeeds and returns a bundle
\* equal to the one saved.
C25_SaveLoadRoundTrip ==
    /\ result.op = "save" => (disk.exists /\ disk.pkl = bundle)
    /\ (result.op = "startup" /\ disk.exists) =>
          /\ result.exc = NoExc
          /\ server.loaded
          /\ server.model = disk.pkl

====
